---------------------------- MODULE Spec2Model ----------------------------
(***************************************************************************)
(* Geometric Resonance: the AudioAnalyzer (js/audioAnalyzer.js) and the    *)
(* MotionCoordinator (js/motionCoordinator.js) as state machines.          *)
(*                                                                         *)
(* Number representation (the JavaScript code computes in IEEE doubles):   *)
(*   time            ticks of 1/3 ms   (dt = 1/60 s is 50 ticks)           *)
(*   band values, flux, onset strengths, pulse   thousandths (milli)       *)
(*   beatInterval    1/100 tick  (1/300 ms)                                *)
(*   bpmSmooth       thousandths of a beat per minute                      *)
(*   smoothness      percent (0..100)                                      *)
(* Products are rounded down to the grid after each operation.             *)
(*                                                                         *)
(* analyze() is modelled at two levels.  Analyze(dt, bandValues) starts    *)
(* from the 64 band values of a call and follows the flux, onset, beat and *)
(* tempo state.  AnalyzeFrame(dt, frame, alpha) is the whole call: it      *)
(* starts from the frequency and time data, for spectra that are constant  *)
(* over the bins below 400 Hz, over those from 400 Hz to 2 kHz and over    *)
(* those from 4 kHz on (fftSize 8192, 48 kHz), computes the band values    *)
(* from them and follows the band peaks, the centroid, the rms, the        *)
(* smoothed bands, the energy and the root note as well.  The animation    *)
(* loop (animate) is modelled as the statements of one callback in order.  *)
(***************************************************************************)
EXTENDS Integers, Sequences, FiniteSets, Bags, TLC

VARIABLES
  (* ---- AudioAnalyzer fields ---- *)
  tMs,              \* _tMs, ticks
  prevBandValues,   \* prevBandValues[1..64], milli
  fluxHist,         \* _fluxHist
  fluxKickHist,     \* _fluxKickHist
  fluxSnareHist,    \* _fluxSnareHist
  fluxHihatHist,    \* _fluxHihatHist
  lastOnsetT,       \* _lastOnsetT, ticks
  lastKickT,        \* _lastKickT
  lastSnareT,       \* _lastSnareT
  lastHihatT,       \* _lastHihatT
  onsetGlobal, onsetKick, onsetSnare, onsetHihat,   \* milli
  spectralFlux, transientSharpness,                 \* milli
  beatInterval,     \* 1/100 tick
  lastBeatTime,     \* ticks
  beatGate,         \* ticks
  bpmSmooth,        \* milli-BPM
  beatCount, barCount,
  (* ---- the last analyze call: its locals and its return value ---- *)
  gOn, kOn, sOn, hOn,   \* strengths trigOnset returned, milli
  isBeat,               \* the value analyze returned
  calls,                \* number of analyze calls so far
  evenBeats,            \* every beat so far came 500 ms after the one before
  quietKick,            \* analyze calls since the kick channel last fired
  kickFirings,          \* number of analyze calls in which the kick channel fired
  (* ---- MotionCoordinator fields ---- *)
  pulseRaw, pulseSmooth1, pulseSmooth2, pulse,      \* milli
  beatLockout,      \* _beatLockout, ticks
  (* ---- the last update call, as seen by its caller ---- *)
  triggered,        \* the call set _pulseRaw and the lockout
  triggers,         \* number of calls that did so
  trigSmooth,       \* the smoothness of the latest triggering call, percent
  consumed,         \* dt handed to update since (and with) the latest trigger
  updates,          \* number of update calls so far
  (* ---- AudioAnalyzer fields computed from the frequency and time data ---- *)
  fftSmooth,        \* _fftSmooth: one value for each range of bins, milli
  bandPeaks,        \* bandPeaks[1..64], milli
  onsetDecay,       \* onsetDecay[1..64], milli
  spectralCentroid, \* milli
  rms, rmsSmooth, rmsPeak,   \* milli
  smooth,           \* smoothSubBass .. smoothBrilliance, milli
  energy,           \* milli
  rootNote,         \* 0..11, or NonFinite
  noteName,
  (* ---- the arguments of the last analyze call ---- *)
  inFreq, inTime, inDt,
  (* ---- AudioAnalyzer: the band layout ---- *)
  fftSize, sampleRate,   \* hertz
  bandEdges,        \* bandEdges[1..65], thousandths of a hertz
  (* ---- the page: animation state, playback and configuration ---- *)
  lastFrameTime,    \* _lastFrameTime, ticks
  lastFFTUpdate,    \* _lastFFTUpdate, ticks
  playing,
  hasSrc,           \* audioEl.src is set
  configSmoothness, \* config.smoothness, percent
  buffers,          \* freqData and timeData, as a frame
  (* ---- the animate callback that is running ---- *)
  stmt,             \* the statement to run next, "idle" between callbacks
  timestamp,        \* ticks
  prevTimestamp,    \* the timestamp of the callback before, 0 if there was none
  rawDt,            \* ticks
  frameDt,          \* dt, ticks
  (* ---- what the callback did ---- *)
  ticks,            \* number of animate callbacks so far
  tickAnalyze,      \* analyze calls of this callback
  tickUpdate,       \* update calls of this callback
  updDt,            \* the dt of the last update call
  drawnPulse,       \* motion.pulse as last read for drawing
  (* ---- MotionCoordinator fields beyond the pulse ---- *)
  impactRaw, impact,                               \* milli
  swellRaw, swellSmooth1, swellSmooth2, swell,     \* milli
  breathePhase,     \* _breathePhase, millionths of a cycle
  breathe,          \* milli
  lowRaw, midRaw, highRaw,                         \* milli
  lowMotion, midMotion, highMotion,                \* milli
  scaleSuggestion, zoomSuggestion,                 \* milli
  (* ---- a second MotionCoordinator, given the same calls but for its ---- *)
  (* ---- smoothness, and the pulse outputs of the two summed up       ---- *)
  second,           \* its _pulseRaw, _pulseSmooth1, pulse and _beatLockout
  secondSwell,      \* its _swellRaw, _swellSmooth1, swell, _breathePhase, breathe
  pulseSum, pulseSquares,      \* of the first: sum of pulse and of pulse^2
  secondSum, secondSquares     \* of the second

avars == <<tMs, prevBandValues, fluxHist, fluxKickHist, fluxSnareHist,
           fluxHihatHist, lastOnsetT, lastKickT, lastSnareT, lastHihatT,
           onsetGlobal, onsetKick, onsetSnare, onsetHihat, spectralFlux,
           transientSharpness, beatInterval, lastBeatTime, beatGate,
           bpmSmooth, beatCount, barCount, gOn, kOn, sOn, hOn, isBeat, calls,
           evenBeats, quietKick, kickFirings>>

mvars == <<pulseRaw, pulseSmooth1, pulseSmooth2, pulse, beatLockout,
           triggered, triggers, trigSmooth, consumed, updates>>

fvars == <<fftSmooth, bandPeaks, onsetDecay, spectralCentroid, rms, rmsSmooth,
           rmsPeak, smooth, energy, rootNote, noteName, inFreq, inTime, inDt,
           fftSize, sampleRate, bandEdges>>

lvars == <<lastFrameTime, lastFFTUpdate, playing, hasSrc, configSmoothness,
           buffers, stmt, timestamp, prevTimestamp, rawDt, frameDt, ticks,
           tickAnalyze, tickUpdate, updDt, drawnPulse>>

xvars == <<impactRaw, impact, swellRaw, swellSmooth1, swellSmooth2, swell,
           breathePhase, breathe, lowRaw, midRaw, highRaw, lowMotion,
           midMotion, highMotion, scaleSuggestion, zoomSuggestion>>

pvars == <<second, secondSwell, pulseSum, pulseSquares, secondSum, secondSquares>>

vars == <<avars, mvars, fvars, lvars, xvars, pvars>>

----------------------------------------------------------------------------
(* Bounds of the model *)

MaxCalls == 4          \* analyze calls in SpecAnalyzer
MaxOnsetCalls == 4     \* analyze calls in SpecOnsets
MaxClickCalls == 14    \* analyze calls in SpecClick
MaxSteadyCalls == 26   \* analyze calls in SpecClick500
MaxUpdates == 5        \* update calls in SpecMotion
MaxSecondUpdates == 60 \* update calls in SpecSecond
MaxDecayCalls == 10    \* analyze calls in SpecDecay
MaxFrameCalls == 4     \* analyze calls in SpecFrame
MaxLongCalls == 62     \* analyze calls in SpecLong
MaxTicks == 5          \* animate callbacks in SpecLoop
BurstCalls == 5        \* calls of SpecLong before the silence
MaxPulseUpdates == 5   \* update calls in SpecPulse
MaxFullUpdates == 5    \* update calls in SpecCoordinator
MaxPairUpdates == 25   \* update calls in SpecPair
PairBurst == 6         \* calls of SpecPair in which the kick may be up
MaxTwinUpdates == 12   \* update calls in SpecTwin
MaxCappedCalls == 10   \* analyze calls in SpecCapped
MaxTickCalls == 8      \* analyze and update calls in SpecTick

----------------------------------------------------------------------------
(* utils.js and arithmetic on the grid *)

Max(a, b) == IF a >= b THEN a ELSE b
Min(a, b) == IF a <= b THEN a ELSE b
Abs(a) == IF a >= 0 THEN a ELSE -a

\* clamp = (v, a, b) => Math.min(b, Math.max(a, v))
clamp(v, a, b) == Min(b, Max(a, v))

\* lerp = (a, b, t) => a + (b - a) * t, with t = num/den
lerp(a, b, num, den) == a + ((b - a) * num) \div den

\* a duration given in milliseconds, in ticks
Ms(x) == 3 * x

\* Math.sqrt, rounded down
RECURSIVE SqrtSearch(_, _, _)
SqrtSearch(x, lo, hi) ==
  IF lo >= hi THEN lo
  ELSE LET mid == (lo + hi + 1) \div 2
       IN IF mid * mid <= x THEN SqrtSearch(x, mid, hi)
                            ELSE SqrtSearch(x, lo, mid - 1)

sqrt(x) == SqrtSearch(x, 0, 40000)

\* arr.slice().sort((x, y) => x - y)
RECURSIVE Insert(_, _)
Insert(s, x) ==
  IF s = <<>> THEN <<x>>
  ELSE IF x <= Head(s) THEN <<x>> \o s
  ELSE <<Head(s)>> \o Insert(Tail(s), x)

RECURSIVE SortAsc(_)
SortAsc(s) == IF s = <<>> THEN <<>> ELSE Insert(SortAsc(Tail(s)), Head(s))

----------------------------------------------------------------------------
(* AudioAnalyzer: adaptive threshold *)

\* _median(arr), doubled: a[floor(mid)] + a[ceil(mid)] is twice the lerp at
\* mid - floor(mid), which is 0 or 1/2.
median2(arr) ==
  IF Len(arr) = 0 THEN 0
  ELSE LET a == SortAsc(arr)
           n == Len(a)
       IN a[((n - 1) \div 2) + 1] + a[(n \div 2) + 1]

\* _mad(arr, med) without its + 1e-6, times four: the median of |v - med|.
mad4(arr, med2) == median2([i \in 1..Len(arr) |-> Abs(2 * arr[i] - med2)])

\* variant: the threshold without the 1e-6 floor of _mad
adaptiveThresholdNoFloor(history, k10) ==
  LET med2 == median2(history)
  IN 20000 * med2 + 1000 * k10 * mad4(history, med2)

\* _adaptiveThreshold(history, k) = med + k * (mad + 1e-6), k = k10/10, in
\* units of 1/40000 milli (2.5e-8), in which 1e-6 is 40.
adaptiveThreshold(history, k10) ==
  LET med2 == median2(history)
  IN 20000 * med2 + 1000 * k10 * mad4(history, med2) + 4 * k10

\* a flux value (milli) in the threshold's units
InThrUnits(v) == 40000 * v

----------------------------------------------------------------------------
(* AudioAnalyzer: band layout *)

bands == 64

\* a * b for two ratios in thousandths, without a product above 2^31
mulRatio(a, b) == (a \div 1000) * b + ((a % 1000) * b) \div 1000

\* q^(i / n) for a ratio q in thousandths and n a power of two: the root is
\* taken by halving n, a whole power by multiplying
RECURSIVE powFrac(_, _, _)
powFrac(q, i, n) ==
  IF i = 0 THEN 1000
  ELSE IF i >= n THEN mulRatio(q, powFrac(q, i - n, n))
  ELSE powFrac(sqrt(q * 1000), i, n \div 2)

\* variant: the loop stops one short (i < numBands)
computeLogBandEdgesShort(numBands, minHz, maxHz) ==
  [i \in 1..numBands |->
     minHz * powFrac((maxHz * 1000) \div minHz, i - 1, numBands)]

\* _computeLogBandEdges: edges[i] = 10^(logMin + (i / numBands) * (logMax -
\* logMin)) = minHz * (maxHz / minHz)^(i / numBands) for i = 0..numBands, in
\* thousandths of a hertz
computeLogBandEdges(numBands, minHz, maxHz) ==
  [i \in 1..(numBands + 1) |->
     minHz * powFrac((maxHz * 1000) \div minHz, i - 1, numBands)]

\* (bandEdges[b] + bandEdges[b+1]) / 2 for the edges _computeLogBandEdges(64,
\* 20, 20000) returns, in tenths of a hertz.
BandCentreHz10 ==
  << 211, 235, 262, 292, 326, 363, 404, 450,
     501, 558, 622, 693, 772, 860, 958, 1067,
     1189, 1324, 1475, 1643, 1831, 2039, 2272, 2531,
     2819, 3140, 3498, 3897, 4341, 4836, 5387, 6001,
     6685, 7447, 8296, 9241, 10294, 11468, 12775, 14231,
     15853, 17659, 19672, 21914, 24412, 27194, 30294, 33746,
     37592, 41877, 46650, 51967, 57889, 64487, 71837, 80025,
     89146, 99306, 110624, 123232, 137278, 152924, 170353, 189769 >>

\* The if / else-if chain that routes a band's rectified delta to a channel;
\* the weight is in tenths.
FluxRoute(hz10) ==
  IF hz10 < 1500 THEN [ch |-> "kick", w10 |-> 20]
  ELSE IF hz10 >= 1500 /\ hz10 < 4000 THEN [ch |-> "kick", w10 |-> 5]
  ELSE IF hz10 >= 2000 /\ hz10 < 20000 THEN [ch |-> "snare", w10 |-> 10]
  ELSE IF hz10 >= 40000 THEN [ch |-> "hihat", w10 |-> 15]
  ELSE [ch |-> "none", w10 |-> 0]

\* pos * pos for band b, pos = Math.max(0, bandValues[b] - prevBandValues[b])
Rectified(bandValues, prev, b) ==
  LET pos == Max(0, bandValues[b] - prev[b]) IN pos * pos

\* weight (tenths) with which band b enters the sum of channel ch ("all" is
\* the unweighted global flux)
FluxWeight10(ch, b) ==
  LET r == FluxRoute(BandCentreHz10[b])
  IN IF ch = "all" THEN 10 ELSE IF r.ch = ch THEN r.w10 ELSE 0

\* The sum the loop over the bands accumulates for channel ch, times ten:
\* the weighted rectified deltas of the bands that rose (the others add 0).
\* The terms are summed as the counts of a bag, whose cardinality is the sum
\* of its counts.
FluxSum10(bandValues, prev, ch) ==
  LET rising == {b \in 1..bands :
                   bandValues[b] > prev[b] /\ FluxWeight10(ch, b) > 0}
  IN BagCardinality([b \in rising |->
                       FluxWeight10(ch, b) * Rectified(bandValues, prev, b)])

\* flux = Math.sqrt(flux)
Flux(bandValues, prev, ch) == sqrt(FluxSum10(bandValues, prev, ch) \div 10)

\* pushHist(arr, v, maxLen)
\* variant: at the cap the sample just pushed is dropped, not the oldest
pushHistDropNew(arr, v, maxLen) == IF Len(arr) >= maxLen THEN arr ELSE Append(arr, v)

pushHist(arr, v, maxLen) ==
  LET a == Append(arr, v) IN IF Len(a) > maxLen THEN Tail(a) ELSE a


----------------------------------------------------------------------------
(* AudioAnalyzer: onset detection *)

\* the condition of trigOnset: v > thr && (now - this[ref]) > cooldown
\* (thr in threshold units, cooldown in milliseconds)
\* variant: the cooldown is not looked at
trigFiresNoCooldown(v, thr, now, ref, cooldown) == InThrUnits(v) > thr

trigFires(v, thr, now, ref, cooldown) ==
  InThrUnits(v) > thr /\ (now - ref) > Ms(cooldown)

\* the value trigOnset returns when it fires:
\* clamp((v / thr - 1.0) * sensitivity, 0.5, 1.5), sensitivity = sens10/10.
\* v/thr - 1 is taken on a grid of 1/10 milli; at 1 or more the result is
\* above 1.5 for either sensitivity (2.4, 3.0).
trigStrength(v, thr, sens10) ==
  LET num == (InThrUnits(v) - thr) \div 4000
      den == thr \div 4000
  IN IF den = 0 \/ num >= den THEN 1500
     ELSE clamp((num * sens10 * 100) \div den, 500, 1500)

\* trigOnset(v, thr, ref, cooldown, sensitivity)
trigOnset(v, thr, now, ref, cooldown, sens10) ==
  IF trigFires(v, thr, now, ref, cooldown) THEN trigStrength(v, thr, sens10)
  ELSE 0

\* variant: the previous value is kept as it is
onsetEnvelopeHold(xOn, onsetX, pct) == Max(xOn, onsetX)

\* variant: the previous value is dropped
onsetEnvelopeNoTail(xOn, onsetX, pct) == xOn

\* this.onsetX = Math.max(xOn, this.onsetX * decay), decay = pct/100
onsetEnvelope(xOn, onsetX, pct) == Max(xOn, (onsetX * pct) \div 100)

\* this.transientSharpness = clamp(kick*1.2 + snare*0.8 + hihat*0.5 + global*0.3, 0, 2.0)
sharpness(k, s, h, g) == clamp((k * 12 + s * 8 + h * 5 + g * 3) \div 10, 0, 2000)

----------------------------------------------------------------------------
(* AudioAnalyzer: beat detection and tempo tracking *)

\* a value that is not a finite number (Infinity, NaN)
NonFinite == -1

\* if (kOn > 0.3 && (now - this.lastBeatTime) > 180 && this.beatGate <= 0)
\* variants: without the 180 ms spacing, without the gate
beatFiresNoSpacing(k, now, lbt, gate) == k > 300 /\ gate <= 0

beatFiresNoGate(k, now, lbt, gate) == k > 300 /\ (now - lbt) > Ms(180)

\* variant: the kick envelope, not the strength of this call, is looked at
beatFiresTail(k, now, lbt, gate) ==
  Max(k, (onsetKick * 78) \div 100) > 300 /\ (now - lbt) > Ms(180) /\ gate <= 0

beatFires(k, now, lbt, gate) == k > 300 /\ (now - lbt) > Ms(180) /\ gate <= 0

\* if (this.lastBeatTime > 0 && interval > 180 && interval < 2500)
tempoUpdates(lbt, interval) ==
  lbt > 0 /\ interval > Ms(180) /\ interval < Ms(2500)

\* variants: weight 0.5, weight 1.25
blendIntervalHalf(bi, interval) == lerp(bi, 100 * interval, 50, 100)

blendIntervalOvershoot(bi, interval) == lerp(bi, 100 * interval, 125, 100)

\* this.beatInterval = lerp(this.beatInterval, interval, 0.25)
blendInterval(bi, interval) == lerp(bi, 100 * interval, 25, 100)

\* variant: 30000 / this.beatInterval
bpmOfHalf(bi) ==
  IF bi = 0 THEN NonFinite
  ELSE LET n == 30000 * 300
       IN (n \div bi) * 1000 + ((n % bi) * 1000) \div bi

\* 60000 / this.beatInterval, in milli-BPM (beatInterval is in 1/300 ms)
bpmOf(bi) ==
  IF bi = 0 THEN NonFinite
  ELSE LET n == 60000 * 300
       IN (n \div bi) * 1000 + ((n % bi) * 1000) \div bi

\* this.bpmSmooth = lerp(this.bpmSmooth, 60000 / this.beatInterval, 0.15)
blendBpm(bpm, bi) ==
  IF bpm = NonFinite \/ bpmOf(bi) = NonFinite THEN NonFinite
  ELSE lerp(bpm, bpmOf(bi), 15, 100)

\* Math.round of a milli value
round(x) == (x + 500) \div 1000

\* getBPM()
getBPM ==
  IF bpmSmooth # NonFinite THEN round(bpmSmooth)
  ELSE round(bpmOf(clamp(beatInterval, 100 * Ms(240), 100 * Ms(2000))))

\* variant: a bar every third beat
barAfterThird(bars, beats) == IF beats % 3 = 0 THEN bars + 1 ELSE bars

\* if (this.beatCount % 4 === 0) this.barCount++   (beatCount already incremented)
barAfter(bars, beats) == IF beats % 4 = 0 THEN bars + 1 ELSE bars

\* variant: the gate runs down at a quarter of the speed
gateAfterSlow(gate, dt) == Max(0, gate - dt \div 4)

\* this.beatGate = Math.max(0, this.beatGate - dt * 1000)
gateAfter(gate, dt) == Max(0, gate - dt)

----------------------------------------------------------------------------
(* AudioAnalyzer.analyze(freqData, timeData, dt, ...), from the band values
   the call computes to its return value.  dt is in ticks. *)

Analyze(dt, bandValues) ==
  \E now \in {tMs + dt},
     flux \in {Flux(bandValues, prevBandValues, "all")},
     fluxKick \in {Flux(bandValues, prevBandValues, "kick")},
     fluxSnare \in {Flux(bandValues, prevBandValues, "snare")},
     fluxHihat \in {Flux(bandValues, prevBandValues, "hihat")} :
  \E hG \in {pushHist(fluxHist, flux, 60)},
     hK \in {pushHist(fluxKickHist, fluxKick, 50)},
     hS \in {pushHist(fluxSnareHist, fluxSnare, 50)},
     hH \in {pushHist(fluxHihatHist, fluxHihat, 40)} :
  \E thrG \in {adaptiveThreshold(hG, 22)},
     thrK \in {adaptiveThreshold(hK, 20)},
     thrS \in {adaptiveThreshold(hS, 22)},
     thrH \in {adaptiveThreshold(hH, 25)} :
  \E g \in {trigOnset(flux, thrG, now, lastOnsetT, 80, 24)},
     k \in {trigOnset(fluxKick, thrK, now, lastKickT, 150, 30)},
     s \in {trigOnset(fluxSnare, thrS, now, lastSnareT, 100, 24)},
     h \in {trigOnset(fluxHihat, thrH, now, lastHihatT, 50, 24)} :
  LET oG == onsetEnvelope(g, onsetGlobal, 88)
      oK == onsetEnvelope(k, onsetKick, 78)
      oS == onsetEnvelope(s, onsetSnare, 82)
      oH == onsetEnvelope(h, onsetHihat, 90)
      beat == beatFires(k, now, lastBeatTime, beatGate)
      interval == now - lastBeatTime
      tempo == beat /\ tempoUpdates(lastBeatTime, interval)
      bi == IF tempo THEN blendInterval(beatInterval, interval) ELSE beatInterval
  IN /\ tMs' = now
     /\ prevBandValues' = bandValues
     /\ fluxHist' = hG
     /\ fluxKickHist' = hK
     /\ fluxSnareHist' = hS
     /\ fluxHihatHist' = hH
     /\ lastOnsetT' = IF g > 0 THEN now ELSE lastOnsetT
     /\ lastKickT' = IF k > 0 THEN now ELSE lastKickT
     /\ lastSnareT' = IF s > 0 THEN now ELSE lastSnareT
     /\ lastHihatT' = IF h > 0 THEN now ELSE lastHihatT
     /\ gOn' = g
     /\ kOn' = k
     /\ sOn' = s
     /\ hOn' = h
     /\ onsetGlobal' = oG
     /\ onsetKick' = oK
     /\ onsetSnare' = oS
     /\ onsetHihat' = oH
     /\ spectralFlux' = clamp((flux * 8) \div 10, 0, 2500)
     /\ transientSharpness' = sharpness(oK, oS, oH, oG)
     /\ beatInterval' = bi
     /\ bpmSmooth' = IF tempo THEN blendBpm(bpmSmooth, bi) ELSE bpmSmooth
     /\ lastBeatTime' = IF beat THEN now ELSE lastBeatTime
     /\ beatCount' = IF beat THEN beatCount + 1 ELSE beatCount
     /\ barCount' = IF beat THEN barAfter(barCount, beatCount + 1) ELSE barCount
     /\ beatGate' = gateAfter(IF beat THEN Ms(100) ELSE beatGate, dt)
     /\ isBeat' = beat
     /\ calls' = calls + 1
     \* observer: every beat so far came 500 ms after the one before it
     /\ evenBeats' = (evenBeats /\ (beat /\ beatCount > 0 => interval = Ms(500)))
     /\ quietKick' = IF k > 0 THEN 0 ELSE quietKick + 1
     /\ kickFirings' = kickFirings + (IF k > 0 THEN 1 ELSE 0)

----------------------------------------------------------------------------
(* AudioAnalyzer.analyze: from freqData and timeData to the band values and
   the features computed from them.  The spectrum of a frame is constant
   over the bins below 400 Hz (kick), from 400 Hz to 2 kHz (snare) and from
   4 kHz on (hat), and 0 from 2 to 4 kHz; _fftSmooth is then constant over
   the same ranges.  The waveform of a frame is 128 +/- amp in every sample.
   fftSize is 8192 and sampleRate 48000, as the constructor sets them. *)

\* Math.pow(freqData[i] / 255, 1.2), for the byte values the frames use
Linear(byte) ==
  CASE byte = 0 -> 0
    [] byte = 16 -> 36
    [] byte = 128 -> 437
    [] byte = 255 -> 1000

\* _fftSmooth[i] = lerp(_fftSmooth[i], linear, a), smoothingAlpha = alpha/1000
smoothBin(prev, linear, alpha) ==
  LET baseAlpha == clamp(alpha, 50, 400)
      a == IF linear > prev THEN Min((baseAlpha * 25) \div 10, 700) ELSE baseAlpha
  IN lerp(prev, linear, a, 1000)

smoothBins(fs, freq, alpha) ==
  [r \in {"kick", "snare", "hat"} |-> smoothBin(fs[r], Linear(freq[r]), alpha)]

\* the share (in thousandths) of the bins startBin..endBin of a band, by
\* their weights 1.0 + (i / N) * 0.5, that lies in the kick, snare and hat
\* range: bands 1..27 lie below 400 Hz, band 28 across it, bands 29..42 in
\* the snare range, band 43 across 2 kHz, band 50 across 4 kHz
BandMix(b) ==
  IF b <= 27 THEN <<1000, 0, 0>>
  ELSE IF b = 28 THEN <<700, 300, 0>>
  ELSE IF b <= 42 THEN <<0, 1000, 0>>
  ELSE IF b = 43 THEN <<0, 657, 0>>
  ELSE IF b <= 49 THEN <<0, 0, 0>>
  ELSE IF b = 50 THEN <<0, 0, 912>>
  ELSE <<0, 0, 1000>>

\* val = w > 0 ? v / w : 0
bandValuesOf(fs) ==
  [b \in 1..bands |->
     (BandMix(b)[1] * fs["kick"] + BandMix(b)[2] * fs["snare"]
        + BandMix(b)[3] * fs["hat"]) \div 1000]

\* the sum of f[b] over the bands in S (f is not negative)
SumBands(f, S) ==
  BagCardinality([b \in {x \in S : f[x] > 0} |-> f[b]])

\* this.bandPeaks[b] = Math.max(this.bandPeaks[b] * 0.97, val)
peaksAfter(peaks, bandValues) ==
  [b \in 1..bands |-> Max((peaks[b] * 97) \div 100, bandValues[b])]

\* this.onsetDecay[b] = Math.max(this.onsetDecay[b] * 0.82, clamp(pos * 2.8, 0, 1))
onsetDecayAfter(od, bandValues, prev) ==
  [b \in 1..bands |->
     Max((od[b] * 82) \div 100,
         clamp((Max(0, bandValues[b] - prev[b]) * 28) \div 10, 0, 1000))]

\* variant: the band index not divided by the number of bands
centroidUnnormalised(bandValues) ==
  LET weight == SumBands(bandValues, 1..bands)
      moment == SumBands([b \in 1..bands |-> (b - 1) * bandValues[b]], 1..bands)
  IN IF weight > 0 THEN (moment * 1000) \div weight ELSE 500

\* variant: the division without its guard (0 / 0 is NaN)
centroidUnguarded(bandValues) ==
  LET weight == SumBands(bandValues, 1..bands)
      moment == SumBands([b \in 1..bands |-> (b - 1) * bandValues[b]], 1..bands)
  IN IF weight > 0 THEN (moment * 125) \div (8 * weight) ELSE NonFinite

\* sumCentroidWeight > 1e-6 ? sumCentroid / sumCentroidWeight : 0.5, with
\* sumCentroid the sum of (b / bands) * val over b = 0..63
centroid(bandValues) ==
  LET weight == SumBands(bandValues, 1..bands)
      moment == SumBands([b \in 1..bands |-> (b - 1) * bandValues[b]], 1..bands)
  IN IF weight > 0 THEN (moment * 125) \div (8 * weight) ELSE 500

\* Math.sqrt(sum / timeData.length) of samples (timeData[i] - 128) / 128
rmsOf(amp) == (amp * 1000) \div 128

\* 1 - Math.exp(-dt / 0.005), 1 - Math.exp(-dt / 0.15) and
\* 1 - Math.pow(0.001, dt * rate) in thousandths, for dt = 0, 0.016, 1/60 and
\* 0.05 s
EnvTable(a, b, c, d, dt) ==
  CASE dt = 0 -> a [] dt = Ms(16) -> b [] dt = 50 -> c [] dt = Ms(50) -> d

attackCoeff(dt) == EnvTable(0, 959, 964, 1000, dt)

releaseCoeff(dt) == EnvTable(0, 101, 105, 283, dt)

fastAttack(dt) == EnvTable(0, 735, 749, 984, dt)

medAttack(dt) == EnvTable(0, 485, 499, 874, dt)

slowRelease(dt) == EnvTable(0, 153, 159, 404, dt)

medRelease(dt) == EnvTable(0, 241, 250, 578, dt)

\* this.rmsSmooth + (this.rms - this.rmsSmooth) * envCoeff
rmsSmoothAfter(rs, r, dt) ==
  lerp(rs, r, IF r > rs THEN attackCoeff(dt) ELSE releaseCoeff(dt), 1000)

\* Math.max(this.rmsPeak * 0.9995, this.rmsSmooth)
rmsPeakAfter(peak, rs) == Max((peak * 9995) \div 10000, rs)

\* computeBandEnergy(startBand, endBand), bands counted from 0
computeBandEnergy(bandValues, startBand, endBand) ==
  SumBands(bandValues, (startBand + 1)..(endBand + 1)) \div (endBand - startBand + 1)

\* updateEnv(current, target, attack, release)
updateEnv(current, target, attack, release) ==
  lerp(current, target, IF target > current THEN attack ELSE release, 1000)

smoothAfter(sm, bandValues, dt) ==
  [SubBass |-> updateEnv(sm.SubBass, computeBandEnergy(bandValues, 0, 3),
                         fastAttack(dt), slowRelease(dt)),
   Bass |-> updateEnv(sm.Bass, computeBandEnergy(bandValues, 4, 8),
                      fastAttack(dt), slowRelease(dt)),
   LowMid |-> updateEnv(sm.LowMid, computeBandEnergy(bandValues, 9, 16),
                        medAttack(dt), medRelease(dt)),
   Mid |-> updateEnv(sm.Mid, computeBandEnergy(bandValues, 17, 28),
                     medAttack(dt), medRelease(dt)),
   HighMid |-> updateEnv(sm.HighMid, computeBandEnergy(bandValues, 29, 40),
                         medAttack(dt), medRelease(dt)),
   High |-> updateEnv(sm.High, computeBandEnergy(bandValues, 41, 52),
                      fastAttack(dt), medRelease(dt)),
   Brilliance |-> updateEnv(sm.Brilliance, computeBandEnergy(bandValues, 53, 63),
                            fastAttack(dt), medRelease(dt))]

\* the composite energy
energyOf(sm) ==
  clamp((25 * sm.SubBass + 30 * sm.Bass + 15 * sm.LowMid + 15 * sm.Mid
           + 10 * sm.HighMid + 5 * sm.High) \div 100, 0, 1500)

\* the number of bins i in 4..399 with 30 < i * hzPerBin < 4000 whose pitch
\* class ((Math.round(midi) % 12) + 12) % 12 is 0, 1, .. 11, in the kick
\* and in the snare range
ChromaBinsKick == <<4, 7, 4, 6, 6, 7, 7, 7, 4, 3, 4, 4>>

ChromaBinsSnare == <<15, 17, 18, 18, 19, 21, 21, 24, 28, 32, 31, 29>>

\* this.chroma[chroma] += this._fftSmooth[i]
chromaOf(fs) ==
  [pc \in 0..11 |->
     ChromaBinsKick[pc + 1] * fs["kick"] + ChromaBinsSnare[pc + 1] * fs["snare"]]

\* variant: a later class replaces an earlier one of the same value
RECURSIVE dominantLast(_, _, _, _)
dominantLast(chroma, i, maxVal, maxIdx) ==
  IF i > 11 THEN <<maxVal, maxIdx>>
  ELSE IF chroma[i] >= maxVal THEN dominantLast(chroma, i + 1, chroma[i], i)
  ELSE dominantLast(chroma, i + 1, maxVal, maxIdx)

\* the loop that finds the dominant pitch class: <<maxVal, maxIdx>> after
\* the classes from i on
RECURSIVE dominant(_, _, _, _)
dominant(chroma, i, maxVal, maxIdx) ==
  IF i > 11 THEN <<maxVal, maxIdx>>
  ELSE IF chroma[i] > maxVal THEN dominant(chroma, i + 1, chroma[i], i)
  ELSE dominant(chroma, i + 1, maxVal, maxIdx)

\* if (maxVal > 0.1) this.rootNote = maxIdx
rootDetected(chroma) == dominant(chroma, 0, 0, 0)[1] > 100

rootAfter(root, chroma) ==
  IF rootDetected(chroma) THEN dominant(chroma, 0, 0, 0)[2] ELSE root

\* _noteName(pc)
noteNameOf(pc) ==
  <<"C", "C#", "D", "D#", "E", "F", "F#", "G", "G#", "A", "A#", "B">>[(pc % 12) + 1]

nameAfter(name, chroma) ==
  IF rootDetected(chroma) THEN noteNameOf(rootAfter(0, chroma)) ELSE name

\* analyze(freqData, timeData, dt, null, null, smoothingAlpha): the whole
\* call.  frame gives the byte levels of freqData in the three ranges and
\* the amplitude of timeData.
AnalyzeFrame(dt, frame, alpha) ==
  \E fs \in {smoothBins(fftSmooth, frame, alpha)} :
  \E bandValues \in {bandValuesOf(fs)} :
  \E r \in {rmsOf(frame.amp)}, sm \in {smoothAfter(smooth, bandValues, dt)},
     chroma \in {chromaOf(fs)} :
  \E rs \in {rmsSmoothAfter(rmsSmooth, r, dt)} :
    /\ Analyze(dt, bandValues)
    /\ fftSmooth' = fs
    /\ bandPeaks' = peaksAfter(bandPeaks, bandValues)
    /\ onsetDecay' = onsetDecayAfter(onsetDecay, bandValues, prevBandValues)
    /\ spectralCentroid' = centroid(bandValues)
    /\ rms' = r
    /\ rmsSmooth' = rs
    /\ rmsPeak' = rmsPeakAfter(rmsPeak, rs)
    /\ smooth' = sm
    /\ energy' = energyOf(sm)
    /\ rootNote' = rootAfter(rootNote, chroma)
    /\ noteName' = nameAfter(noteName, chroma)
    /\ inFreq' = [r2 \in {"kick", "snare", "hat"} |-> frame[r2]]
    /\ inTime' = frame.amp
    /\ inDt' = dt
       /\ UNCHANGED <<fftSize, sampleRate, bandEdges>>

----------------------------------------------------------------------------
(* Inputs *)

\* A spectrum frame: the band values of a call whose low bands (below
\* 400 Hz) are at level kick, the bands from 400 Hz to 2 kHz at level snare
\* and the bands from 4 kHz on at level hat.
Frame(kick, snare, hat) ==
  [b \in 1..bands |->
     LET hz10 == BandCentreHz10[b]
     IN IF hz10 < 4000 THEN kick
        ELSE IF hz10 < 20000 THEN snare
        ELSE IF hz10 >= 40000 THEN hat
        ELSE 0]

Silence == Frame(0, 0, 0)

\* frames of the general analyzer runs
Frames == { Silence, Frame(200, 0, 0), Frame(800, 0, 0) }

\* delta times of the general analyzer runs: 50, 170, 400 and 3000 ms
DtApi == { Ms(50), Ms(170), Ms(400), Ms(3000) }

----------------------------------------------------------------------------
(* Initial state: the two constructors *)

InitAnalyzer ==
  /\ tMs = 0
  /\ prevBandValues = [b \in 1..bands |-> 0]
  /\ fluxHist = <<>>
  /\ fluxKickHist = <<>>
  /\ fluxSnareHist = <<>>
  /\ fluxHihatHist = <<>>
  /\ lastOnsetT = 0
  /\ lastKickT = 0
  /\ lastSnareT = 0
  /\ lastHihatT = 0
  /\ onsetGlobal = 0
  /\ onsetKick = 0
  /\ onsetSnare = 0
  /\ onsetHihat = 0
  /\ spectralFlux = 0
  /\ transientSharpness = 0
  /\ beatInterval = 100 * Ms(500)
  /\ lastBeatTime = 0
  /\ beatGate = 0
  /\ bpmSmooth = 120000
  /\ beatCount = 0
  /\ barCount = 0
  /\ gOn = 0
  /\ kOn = 0
  /\ sOn = 0
  /\ hOn = 0
  /\ isBeat = FALSE
  /\ calls = 0

InitObserver == evenBeats = TRUE /\ quietKick = 0 /\ kickFirings = 0

InitFeatures ==
  /\ fftSmooth = [r \in {"kick", "snare", "hat"} |-> 0]
  /\ bandPeaks = [b \in 1..bands |-> 0]
  /\ onsetDecay = [b \in 1..bands |-> 0]
  /\ spectralCentroid = 500
  /\ rms = 0
  /\ rmsSmooth = 60
  /\ rmsPeak = 0
  /\ smooth = [SubBass |-> 0, Bass |-> 0, LowMid |-> 0, Mid |-> 0,
               HighMid |-> 0, High |-> 0, Brilliance |-> 0]
  /\ energy = 0
  /\ rootNote = NonFinite
  /\ noteName = "--"
  /\ inFreq = [r \in {"kick", "snare", "hat"} |-> 0]
  /\ inTime = 0
  /\ inDt = 0
  /\ fftSize = 8192
  /\ sampleRate = 48000
  /\ bandEdges = computeLogBandEdges(bands, 20, 20000)

InitMotion ==
  /\ pulseRaw = 0
  /\ pulseSmooth1 = 0
  /\ pulseSmooth2 = 0
  /\ pulse = 0
  /\ beatLockout = 0
  /\ triggered = FALSE
  /\ triggers = 0
  /\ trigSmooth = 0
  /\ consumed = 0
  /\ updates = 0
  /\ impactRaw = 0
  /\ impact = 0
  /\ swellRaw = 0
  /\ swellSmooth1 = 0
  /\ swellSmooth2 = 0
  /\ swell = 0
  /\ breathePhase = 0
  /\ breathe = 0
  /\ lowRaw = 0
  /\ midRaw = 0
  /\ highRaw = 0
  /\ lowMotion = 0
  /\ midMotion = 0
  /\ highMotion = 0
  /\ scaleSuggestion = 1000
  /\ zoomSuggestion = 0
  /\ second = [raw |-> 0, s1 |-> 0, s2 |-> 0, lockout |-> 0]
  /\ secondSwell = [raw |-> 0, s1 |-> 0, s2 |-> 0, phase |-> 0, breathe |-> 0]
  /\ pulseSum = 0
  /\ pulseSquares = 0
  /\ secondSum = 0
  /\ secondSquares = 0

\* the page after its script has run, before the first animate call; the
\* byte buffers are zero-filled (a time-domain byte of 0 is amplitude -1)
InitPage ==
  /\ lastFrameTime = 0
  /\ lastFFTUpdate = 0
  /\ playing = FALSE
  /\ hasSrc = FALSE
  /\ buffers = [kick |-> 0, snare |-> 0, hat |-> 0, amp |-> 128]
  /\ stmt = "idle"
  /\ timestamp = 0
  /\ prevTimestamp = 0
  /\ rawDt = 0
  /\ frameDt = 0
  /\ ticks = 0
  /\ tickAnalyze = 0
  /\ tickUpdate = 0
  /\ updDt = 0
  /\ drawnPulse = 0

\* the analyzer and the coordinator on their own: config.smoothness is not
\* read, update is handed its smoothness by the caller
Init ==
  /\ InitAnalyzer /\ InitObserver /\ InitFeatures /\ InitMotion /\ InitPage
  /\ configSmoothness = 0

----------------------------------------------------------------------------
(* MotionCoordinator.update: the beat pulse.  smoothness is in percent. *)

\* 1000 * (0.3 + smoothness * 0.7)
smoothFactor(sm) == 300 + 7 * sm

\* dt * (4.0 - smoothFactor * 3.0) and dt * (8.0 - smoothFactor * 5.0), as
\* numerators over LerpDen
lerpMed(dt, sm) == dt * (4000 - 3 * smoothFactor(sm))

lerpFast(dt, sm) == dt * (8000 - 5 * smoothFactor(sm))

LerpDen == 3000000

\* variant: 100 ms whatever the smoothness
beatLockoutTimeShort(sm) == Ms(100)

\* 150 + smoothness * 200, in ticks
beatLockoutTime(sm) == Ms(150) + (Ms(200) * sm) \div 100

\* variant: the lockout is not looked at
pulseTriggersNoLockout(kick, lockout) == kick > 400

pulseTriggers(kick, lockout) == kick > 400 /\ lockout <= 0

\* variant: the onset strength is not clamped
pulseStartUnclamped(kick) == (kick * 9) \div 10

pulseStart(kick) == clamp((kick * 9) \div 10, 500, 1000)

lockoutAfter(lockout, dt) == Max(0, lockout - dt)

\* _pulseRaw *= 0.92 + smoothness * 0.06
pulseDecay(raw, sm) == (raw * (9200 + 6 * sm)) \div 10000

Update(kick, dt, sm) ==
  LET trig == pulseTriggers(kick, beatLockout)
      raw  == pulseDecay(IF trig THEN pulseStart(kick) ELSE pulseRaw, sm)
      s1   == lerp(pulseSmooth1, raw, lerpFast(dt, sm), LerpDen)
      s2   == lerp(pulseSmooth2, s1, lerpMed(dt, sm), LerpDen)
  IN /\ beatLockout' =
          lockoutAfter(IF trig THEN beatLockoutTime(sm) ELSE beatLockout, dt)
     /\ pulseRaw' = raw
     /\ pulseSmooth1' = s1
     /\ pulseSmooth2' = s2
     /\ pulse' = s2
     \* observers: whether this call started a pulse, how many calls did,
     \* the smoothness of the latest such call, and the delta time handed to
     \* update from that call on
     /\ triggered' = trig
     /\ triggers' = triggers + (IF trig THEN 1 ELSE 0)
     /\ trigSmooth' = IF trig THEN sm ELSE trigSmooth
     /\ consumed' = IF trig THEN dt ELSE consumed + dt
     /\ updates' = updates + 1

\* dt * (1.5 - smoothFactor * 1.2), as a numerator over LerpDen
lerpSlow(dt, sm) == dt * (1500 - (12 * smoothFactor(sm)) \div 10)

\* dt * (0.5 - smoothness * 0.35), as a numerator over LerpDen
lerpSwell(dt, sm) == dt * (500 - (35 * sm) \div 10)

\* (audio.onsetSnare * 0.5 + audio.onsetHihat * 0.3) * (1.0 - smoothness * 0.8)
rawImpact(snare, hihat, sm) ==
  (((snare * 5 + hihat * 3) \div 10) * (1000 - 8 * sm)) \div 1000

\* audio.energy * 0.7 + audio.rmsSmooth * 0.3
targetSwell(en, rs) == (en * 7 + rs * 3) \div 10

\* audio.getBPM() || 120, in beats per minute
bpmOr120(bpm) == IF bpm = 0 THEN 120 ELSE bpm

\* dt * (bpm / 60) * 0.25, in millionths of a cycle
phaseStep(dt, bpm) == (dt * bpm * 25) \div 18

\* Math.sin(phase * 2 pi) in thousandths, phase in millionths of a cycle,
\* by Bhaskara's formula sin(pi x) = 16 x (1 - x) / (5 - 4 x (1 - x)) on
\* each half cycle (within 0.002 of the sine)
sinCycle(phase) ==
  LET f == phase % 1000000
      x == (f % 500000) \div 500
      p == x * (1000 - x)
      half == (4000 * p) \div (1250000 - p)
  IN IF f < 500000 THEN half ELSE -half

\* (Math.sin(...) * 0.5 + 0.5) * this.swell * 0.7
breatheOf(phase, sw) ==
  (((((sinCycle(phase) \div 2) + 500) * sw) \div 1000) * 7) \div 10

\* variant: the onsets push the swell target
swellTargetOnsets(audio) ==
  targetSwell(audio.energy, audio.rmsSmooth) + audio.onsetKick \div 10

\* targetSwell of the analyzer update is given
swellTarget(audio) == targetSwell(audio.energy, audio.rmsSmooth)

\* the swell and breathe part of update (lines 83-97) on the fields
\* _swellRaw, _swellSmooth1, swell (= _swellSmooth2), _breathePhase, breathe
swellAfter(mc, audio, dt, sm) ==
  LET raw == lerp(mc.raw, swellTarget(audio), lerpSwell(dt, sm), LerpDen)
      s1 == lerp(mc.s1, raw, lerpSlow(dt, sm), LerpDen)
      s2 == lerp(mc.s2, s1, lerpSlow(dt, sm), LerpDen)
      phase == mc.phase + phaseStep(dt, bpmOr120(audio.bpm))
  IN [raw |-> raw, s1 |-> s1, s2 |-> s2, phase |-> phase,
      breathe |-> breatheOf(phase, s2)]

\* the whole of update: the pulse, then impact, swell, breathe, the band
\* motions and the suggestions.  audio holds what update reads of the
\* analyzer: onsetKick, onsetSnare, onsetHihat, energy, rmsSmooth, the six
\* smoothed bands (low, mid, high: the two targets already summed) and the
\* value of getBPM().
UpdateFull(audio, dt, sm) ==
  /\ Update(audio.onsetKick, dt, sm)
  /\ \E ir \in {Max((impactRaw * 9) \div 10,
                     rawImpact(audio.onsetSnare, audio.onsetHihat, sm))},
        sw \in {swellAfter([raw |-> swellRaw, s1 |-> swellSmooth1,
                             s2 |-> swellSmooth2, phase |-> breathePhase,
                             breathe |-> breathe], audio, dt, sm)} :
     \E sr \in {sw.raw}, s1 \in {sw.s1}, s2 \in {sw.s2}, ph \in {sw.phase},
        br \in {sw.breathe},
        lr \in {lerp(lowRaw, audio.low \div 2, lerpMed(dt, sm), LerpDen)},
        mr \in {lerp(midRaw, audio.mid \div 2, lerpMed(dt, sm), LerpDen)},
        hr \in {lerp(highRaw, audio.high \div 2, lerpMed(dt, sm), LerpDen)} :
       /\ impactRaw' = ir
       /\ impact' = lerp(impact, ir, lerpFast(dt, sm), LerpDen)
       /\ swellRaw' = sr
       /\ swellSmooth1' = s1
       /\ swellSmooth2' = s2
       /\ swell' = s2
       /\ breathePhase' = ph
       /\ breathe' = br
       /\ lowRaw' = lr
       /\ midRaw' = mr
       /\ highRaw' = hr
       /\ lowMotion' = lerp(lowMotion, lr, lerpSlow(dt, sm), LerpDen)
       /\ midMotion' = lerp(midMotion, mr, lerpSlow(dt, sm), LerpDen)
       /\ highMotion' = lerp(highMotion, hr, lerpSlow(dt, sm), LerpDen)
       /\ scaleSuggestion' =
            1000 + (pulse' * (200 - (12 * sm) \div 10)) \div 1000
                 + (s2 * 12) \div 100 + (br * 6) \div 100
       /\ zoomSuggestion' =
            (br * 4) \div 100 - (pulse' * (120 - sm)) \div 1000

\* frames of 1/60 s and of the 50 ms cap
DtFrame == { 50, Ms(50) }

KickLevels == { 400, 1500 }

Smoothness == { 0, 20 }

UpdateAny ==
  /\ updates < MaxUpdates
  /\ \E kick \in KickLevels, dt \in DtFrame, sm \in Smoothness :
       Update(kick, dt, sm)
  /\ UNCHANGED <<avars, fvars, lvars, xvars, pvars>>

SpecMotion == Init /\ [][UpdateAny]_vars

\* one second of 1/60 s frames at smoothness 0, the kick always above 0.4
UpdateSecond ==
  /\ updates < MaxSecondUpdates
  /\ \E kick \in {450, 1500} : Update(kick, 50, 0)
  /\ UNCHANGED <<avars, fvars, lvars, xvars, pvars>>

SpecSecond == Init /\ [][UpdateSecond]_vars

----------------------------------------------------------------------------
(* The analyzer driven through its API: any frame, any delta time *)

AnalyzeAny ==
  /\ calls < MaxCalls
  /\ \E dt \in DtApi, f \in Frames : Analyze(dt, f)
  /\ UNCHANGED <<mvars, fvars, lvars, xvars, pvars>>

NextAnalyzer == AnalyzeAny

SpecAnalyzer == Init /\ [][NextAnalyzer]_vars



\* frames and delta times of the onset-channel runs: the same level in all
\* bands; 90, 120 and 170 ms lie between the four cooldowns
Full(level) == Frame(level, level, level)

OnsetFrames == { Silence, Full(200), Full(800) }

DtOnsets == { Ms(90), Ms(120), Ms(170) }

AnalyzeOnsets ==
  /\ calls < MaxOnsetCalls
  /\ \E dt \in DtOnsets, f \in OnsetFrames : Analyze(dt, f)
  /\ UNCHANGED <<mvars, fvars, lvars, xvars, pvars>>

SpecOnsets == Init /\ [][AnalyzeOnsets]_vars

----------------------------------------------------------------------------
(* A click track: kick frames separated by silent frames.  A kick frame
   follows a silent frame only; once beats are firing every silent frame is
   followed by a kick frame. *)

KickFrame == Frame(800, 0, 0)

Click(dts, bound) ==
  /\ calls < bound
  /\ \E dt \in dts :
       \E f \in IF prevBandValues = KickFrame THEN {Silence}
                ELSE IF beatCount > 0 THEN {KickFrame}
                ELSE {Silence, KickFrame} :
         Analyze(dt, f)
  /\ UNCHANGED <<mvars, fvars, lvars, xvars, pvars>>

\* clicks 190, 1335 or 2480 ms apart
ClickAny == Click({Ms(95), Ms(1240)}, MaxClickCalls)

SpecClick == Init /\ [][ClickAny]_vars

\* clicks 500 ms apart
Click500 == Click({Ms(250)}, MaxSteadyCalls)

SpecClick500 == Init /\ [][Click500]_vars

----------------------------------------------------------------------------
(* Beat detection and tempo tracking *)

\* C1: a call that reports a beat comes more than 180 ms of analyzer time
\* after the last call that reported one, and starts with the post-fire gate
\* not above 0; lastBeatTime is the time of the last call that reported a beat.
C1_BeatsApart ==
  [][ /\ isBeat' => /\ tMs' - lastBeatTime > Ms(180)
                    /\ beatGate <= 0
                    /\ lastBeatTime' = tMs'
      /\ ~isBeat' => lastBeatTime' = lastBeatTime ]_vars

C1_SecondBeat == isBeat /\ beatCount = 2

\* C2: a call reports a beat and raises beatCount by exactly 1 when the kick
\* strength of the call is above 0.3, more than 180 ms have passed since the
\* last beat and the gate is not above 0; every other call reports no beat
\* and leaves beatCount alone.
C2_BeatExactly ==
  [][ calls' # calls =>
        IF kOn' > 300 /\ tMs' - lastBeatTime > Ms(180) /\ beatGate <= 0
        THEN isBeat' /\ beatCount' = beatCount + 1
        ELSE ~isBeat' /\ beatCount' = beatCount ]_vars

\* a kick fired after a beat and was not reported as a beat
C2_KickHeldBack == kOn > 300 /\ ~isBeat /\ beatCount = 1

\* C3: barCount is floor(beatCount / 4).
C3_BarCount == barCount = beatCount \div 4

C3_TwoBars == isBeat /\ beatCount = 8 /\ barCount = 2

\* C4: a beat raises beatCount by 1 and resets lastBeatTime; when there was
\* a beat before it and the interval is below 2500 ms, beatInterval moves a
\* quarter of the way to the interval and bpmSmooth 15% of the way to
\* 60000 / beatInterval (the new one); otherwise both are left as they were.
C4_TempoUpdate ==
  [][ isBeat' =>
        LET interval == tMs' - lastBeatTime
        IN /\ beatCount' = beatCount + 1
           /\ lastBeatTime' = tMs'
           /\ IF beatCount > 0 /\ interval > Ms(180) /\ interval < Ms(2500)
              THEN /\ beatInterval' =
                        beatInterval + ((100 * interval - beatInterval) * 25) \div 100
                   /\ bpmSmooth' =
                        bpmSmooth + ((bpmOf(beatInterval') - bpmSmooth) * 15) \div 100
              ELSE /\ beatInterval' = beatInterval
                   /\ bpmSmooth' = bpmSmooth ]_vars

\* a second beat has moved the tempo estimate
C4_Blended == isBeat /\ beatCount = 2 /\ beatInterval # 100 * Ms(500)

\* C5: once ten beats have fired, each 500 ms after the one before it,
\* getBPM() is within 120 +/- 2.
C5_Converged == (evenBeats /\ beatCount >= 10) => getBPM \in 118..122

C5_TwelveBeats == evenBeats /\ isBeat /\ beatCount = 12

\* C6: getBPM() is a finite integer in 24..334, it is 120 while no beat had
\* a predecessor, bpmSmooth is finite and beatInterval is strictly between
\* 180 and 2500 ms.
C6_BpmFinite ==
  /\ bpmSmooth # NonFinite
  /\ getBPM \in 24..334
  /\ beatCount <= 1 => getBPM = 120
  /\ beatInterval > 100 * Ms(180)
  /\ beatInterval < 100 * Ms(2500)

\* five beats in, the estimate has left 120
C6_TempoMoved == beatCount = 5 /\ getBPM # 120

----------------------------------------------------------------------------
(* The pulse lockout *)

\* C7: a call triggers a pulse after an earlier trigger only when the calls
\* from that trigger on have consumed at least 150 + 200 * smoothness ms of
\* delta time, smoothness being that of the earlier triggering call.
C7_Lockout ==
  [][ (updates' # updates /\ triggered' /\ triggers > 0) =>
        100 * consumed >= 100 * Ms(150) + Ms(200) * trigSmooth ]_vars

\* 150 ms after a trigger at smoothness 0.2 the lockout is still running
C7_StillLocked ==
  /\ ~triggered
  /\ triggers = 1
  /\ trigSmooth = 20
  /\ consumed >= Ms(150)
  /\ beatLockout > 0

\* C8: 60 calls with dt = 1/60 s, smoothness 0 and the kick above 0.4 in
\* every call trigger at most 7 pulses.
C8_AtMostSeven == updates <= 60 => triggers <= 7

C8_OneSecond == updates = 60 /\ triggers = 7

\* C8 as stated: at most 6 pulses.
C8_AtMostSix == updates <= 60 => triggers <= 6

----------------------------------------------------------------------------
(* Onset channels *)

\* C9: a channel fires in a call only if the call's flux of the channel is
\* above the channel's adaptive threshold and more than the channel's
\* cooldown (80, 150, 100, 50 ms) has passed since the channel last fired;
\* a channel's timer is reset by its own firing and by nothing else.
C9_Cooldowns ==
  [][ calls' # calls =>
        /\ gOn' > 0 => /\ InThrUnits(fluxHist'[Len(fluxHist')])
                            > adaptiveThreshold(fluxHist', 22)
                       /\ tMs' - lastOnsetT > Ms(80)
        /\ kOn' > 0 => /\ InThrUnits(fluxKickHist'[Len(fluxKickHist')])
                            > adaptiveThreshold(fluxKickHist', 20)
                       /\ tMs' - lastKickT > Ms(150)
        /\ sOn' > 0 => /\ InThrUnits(fluxSnareHist'[Len(fluxSnareHist')])
                            > adaptiveThreshold(fluxSnareHist', 22)
                       /\ tMs' - lastSnareT > Ms(100)
        /\ hOn' > 0 => /\ InThrUnits(fluxHihatHist'[Len(fluxHihatHist')])
                            > adaptiveThreshold(fluxHihatHist', 25)
                       /\ tMs' - lastHihatT > Ms(50)
        /\ lastOnsetT' = IF gOn' > 0 THEN tMs' ELSE lastOnsetT
        /\ lastKickT' = IF kOn' > 0 THEN tMs' ELSE lastKickT
        /\ lastSnareT' = IF sOn' > 0 THEN tMs' ELSE lastSnareT
        /\ lastHihatT' = IF hOn' > 0 THEN tMs' ELSE lastHihatT ]_vars

\* the hihat fires again while the snare, its flux above its threshold too,
\* is held back by its cooldown
C9_SnareHeldBack ==
  /\ hOn > 0
  /\ sOn = 0
  /\ lastSnareT > 0
  /\ lastHihatT > lastSnareT
  /\ InThrUnits(fluxSnareHist[Len(fluxSnareHist)])
       > adaptiveThreshold(fluxSnareHist, 22)

\* C10: after a call each channel value is the larger of the strength fired
\* in the call and the previous value times the channel's decay (0.78 kick,
\* 0.82 snare, 0.90 hihat, 0.88 global); a strength is 0 or within
\* [0.5, 1.5]; the channel values stay within [0, 1.5] and
\* transientSharpness within [0, 2].
C10_Envelopes ==
  /\ [] /\ \A v \in {onsetKick, onsetSnare, onsetHihat, onsetGlobal} :
             v >= 0 /\ v <= 1500
        /\ \A v \in {kOn, sOn, hOn, gOn} : v = 0 \/ (v >= 500 /\ v <= 1500)
        /\ transientSharpness >= 0 /\ transientSharpness <= 2000
  /\ [][ calls' # calls =>
           /\ onsetKick' = Max(kOn', (onsetKick * 78) \div 100)
           /\ onsetSnare' = Max(sOn', (onsetSnare * 82) \div 100)
           /\ onsetHihat' = Max(hOn', (onsetHihat * 90) \div 100)
           /\ onsetGlobal' = Max(gOn', (onsetGlobal * 88) \div 100) ]_vars

\* the kick value decays while the hihat fires
C10_KickTail == kOn = 0 /\ onsetKick > 0 /\ onsetKick < 1500 /\ hOn >= 500

----------------------------------------------------------------------------
(* Bursts followed by silence: the onset values decaying *)

AnalyzeDecay ==
  /\ calls < MaxDecayCalls
  /\ \E f \in {Silence, Full(800)} : Analyze(Ms(170), f)
  /\ UNCHANGED <<mvars, fvars, lvars, xvars, pvars>>

SpecDecay == Init /\ [][AnalyzeDecay]_vars

----------------------------------------------------------------------------
(* The analyzer called with whole frames *)

\* a frame: the byte level of freqData below 400 Hz, from 400 Hz to 2 kHz
\* and from 4 kHz on, and the amplitude of timeData around 128
FrameData(k, s, h, a) == [kick |-> k, snare |-> s, hat |-> h, amp |-> a]

FrameInputs ==
  { FrameData(0, 0, 0, 0), FrameData(16, 0, 0, 4),
    FrameData(255, 0, 0, 100), FrameData(128, 255, 255, 127) }

\* smoothingAlpha as analyze defaults it
DefaultAlpha == 180

AnalyzeFrameAny ==
  /\ calls < MaxFrameCalls
  /\ \E dt \in {0, Ms(50)}, frame \in FrameInputs : AnalyzeFrame(dt, frame, DefaultAlpha)
  /\ UNCHANGED <<mvars, lvars, xvars, pvars>>

SpecFrame == Init /\ [][AnalyzeFrameAny]_vars

\* C12: a call with the frequency and time data of the call before it and
\* dt = 0 leaves the onset channel values, onsetDecay, bandPeaks and the
\* band values as they were.
C12_Idempotent ==
  [][ (calls' # calls /\ calls > 0 /\ inDt' = 0
         /\ inFreq' = inFreq /\ inTime' = inTime) =>
        /\ onsetKick' = onsetKick
        /\ onsetSnare' = onsetSnare
        /\ onsetHihat' = onsetHihat
        /\ onsetGlobal' = onsetGlobal
        /\ onsetDecay' = onsetDecay
        /\ bandPeaks' = bandPeaks
        /\ prevBandValues' = prevBandValues ]_vars

----------------------------------------------------------------------------
(* Flux routing *)

\* C13: the kick flux of a call sums the squared rises of the bands below
\* 150 Hz with weight 2.0 and of the bands from 150 to 400 Hz with weight
\* 0.5, the snare flux those of the bands from 150 Hz to 2 kHz with weight
\* 1.0, the hihat flux those of the bands from 4 kHz on with weight 1.5.
C13_Overlap ==
  [][ calls' # calls =>
        LET rect == [b \in 1..bands |->
                       Rectified(prevBandValues', prevBandValues, b)]
            in(lo, hi) == {b \in 1..bands :
                             BandCentreHz10[b] >= lo /\ BandCentreHz10[b] < hi}
        IN /\ fluxKickHist'[Len(fluxKickHist')] =
                sqrt((20 * SumBands(rect, in(0, 1500))
                      + 5 * SumBands(rect, in(1500, 4000))) \div 10)
           /\ fluxSnareHist'[Len(fluxSnareHist')] =
                sqrt(SumBands(rect, in(1500, 20000)))
           /\ fluxHihatHist'[Len(fluxHihatHist')] =
                sqrt((15 * SumBands(rect, in(40000, 200000))) \div 10) ]_vars

----------------------------------------------------------------------------
(* Finite values *)

C15_Ranges ==
  /\ energy >= 0 /\ energy <= 1500
  /\ spectralCentroid >= 0 /\ spectralCentroid <= 1000
  /\ (calls > 0 /\ SumBands(prevBandValues, 1..bands) = 0) => spectralCentroid = 500

\* sound, the centroid off its fallback value, the energy risen
C15_Sound ==
  /\ SumBands(prevBandValues, 1..bands) > 0
  /\ spectralCentroid # 500
  /\ energy > 100

----------------------------------------------------------------------------
(* Pitch class *)

\* C16: a call sets rootNote to the lowest pitch class of the largest chroma
\* value, and noteName to its name, when that value exceeds 0.1, and leaves
\* both alone otherwise; noteName is '--' while rootNote has not been set
\* and the name of rootNote afterwards.
C16_RootNote ==
  /\ [] IF rootNote = NonFinite THEN noteName = "--"
        ELSE noteName = <<"C", "C#", "D", "D#", "E", "F", "F#", "G", "G#",
                          "A", "A#", "B">>[rootNote + 1]
  /\ [][ calls' # calls =>
           LET chroma == chromaOf(fftSmooth')
               top == CHOOSE v \in {chroma[pc] : pc \in 0..11} :
                        \A pc \in 0..11 : chroma[pc] <= v
               first == CHOOSE pc \in 0..11 :
                          chroma[pc] = top /\ \A q \in 0..(pc - 1) : chroma[q] < top
           IN IF top > 100 THEN rootNote' = first
              ELSE rootNote' = rootNote /\ noteName' = noteName ]_vars

\* C# was detected among four classes of the same value, and is kept by a
\* call whose chroma is below 0.1
C16_RootKept ==
  rootNote = 1 /\ noteName = "C#" /\ ~rootDetected(chromaOf(fftSmooth))

----------------------------------------------------------------------------
(* A burst of frames and a long silence: the flux histories at their caps *)

AnalyzeLong ==
  /\ calls < MaxLongCalls
  /\ \E f \in IF calls < BurstCalls THEN {Silence, Full(200), Full(800)}
              ELSE {Silence} :
       Analyze(Ms(50), f)
  /\ UNCHANGED <<mvars, fvars, lvars, xvars, pvars>>

SpecLong == Init /\ [][AnalyzeLong]_vars

\* C17: the flux histories hold min(calls, cap) samples, cap being 60, 50,
\* 50 and 40; a call appends one sample to each history, after dropping the
\* oldest sample of a history that is at its cap.
C17_Histories ==
  /\ [] /\ Len(fluxHist) = Min(calls, 60)
        /\ Len(fluxKickHist) = Min(calls, 50)
        /\ Len(fluxSnareHist) = Min(calls, 50)
        /\ Len(fluxHihatHist) = Min(calls, 40)
  /\ [][ calls' # calls =>
           \A h \in { <<fluxHist, fluxHist', 60>>, <<fluxKickHist, fluxKickHist', 50>>,
                      <<fluxSnareHist, fluxSnareHist', 50>>,
                      <<fluxHihatHist, fluxHihatHist', 40>> } :
             LET kept == IF Len(h[1]) = h[3] THEN Tail(h[1]) ELSE h[1]
             IN /\ Len(h[2]) = Len(kept) + 1
                /\ SubSeq(h[2], 1, Len(kept)) = kept ]_vars

\* the global history is at its cap, has dropped its two oldest samples and
\* starts with a sample of the burst
C17_GlobalFull ==
  /\ calls = 62
  /\ Len(fluxHist) = 60
  /\ fluxHist[1] > 0

----------------------------------------------------------------------------
(* The animation loop: animate(timestamp), one statement group at a time *)

\* performance.now() at the first, direct call of animate
StartTime == Ms(100)

\* the time from one frame timestamp to the next: 1/60 s, and a hitch of
\* 200 ms
FrameGaps == { 50, Ms(200) }

\* what the analyser node hands out: silence, or a full-scale spectrum
\* below 400 Hz
LoopFrames == { FrameData(0, 0, 0, 0), FrameData(255, 0, 0, 100) }

\* rawDt = _lastFrameTime ? (timestamp - _lastFrameTime) / 1000 : 0.016
rawDtOf(ts, last) == IF last # 0 THEN ts - last ELSE Ms(16)

\* variant: no cap
dtOfUncapped(raw) == raw

\* dt = Math.min(rawDt, 0.05)
dtOf(raw) == Min(raw, Ms(50))

\* (timestamp - _lastFFTUpdate) >= getFFTInterval(), the interval being
\* 1000 / (60 - config.smoothness * 30) ms
fftDue(ts, last, sm) == (ts - last) * (600 - 3 * sm) >= 30000

\* smoothingAlpha = 0.18 + config.smoothness * 0.15, in thousandths
smoothingAlpha(sm) == 180 + (150 * sm) \div 100

\* variant: update is left out
stepAfterNoUpdate(at, active) ==
  CASE at = "enter" -> IF active THEN "analyze" ELSE "render"
    [] at = "analyze" -> "render"
    [] at = "update" -> "render"
    [] at = "render" -> "idle"

\* variant: analyze and update run whether the audio plays or not
stepAfterAlways(at, active) ==
  CASE at = "enter" -> "analyze"
    [] at = "analyze" -> "update"
    [] at = "update" -> "render"
    [] at = "render" -> "idle"

\* the order of the statements of animate: the frame time (437-444), then,
\* if (analyser && playing), analyze (453-459) and update (461), then the
\* code that draws
stepAfter(at, active) ==
  CASE at = "enter" -> IF active THEN "analyze" ELSE "render"
    [] at = "analyze" -> "update"
    [] at = "update" -> "render"
    [] at = "render" -> "idle"

\* lines 437-444
AnimateEnter ==
  /\ stmt = "idle"
  /\ ticks < MaxTicks
  /\ \E ts \in IF ticks = 0 THEN {StartTime}
               ELSE {timestamp + gap : gap \in FrameGaps} :
       /\ timestamp' = ts
       /\ prevTimestamp' = timestamp
       /\ rawDt' = rawDtOf(ts, lastFrameTime)
       /\ frameDt' = dtOf(rawDtOf(ts, lastFrameTime))
       /\ lastFrameTime' = ts
  /\ stmt' = stepAfter("enter", playing)
  /\ ticks' = ticks + 1
  /\ tickAnalyze' = 0
  /\ tickUpdate' = 0
  /\ UNCHANGED <<avars, mvars, fvars, xvars, pvars, lastFFTUpdate, playing, hasSrc,
                 configSmoothness, buffers, updDt, drawnPulse>>

\* lines 453-459
AnimateAnalyze ==
  /\ stmt = "analyze"
  /\ LET due == fftDue(timestamp, lastFFTUpdate, configSmoothness)
     IN /\ lastFFTUpdate' = IF due THEN timestamp ELSE lastFFTUpdate
        /\ \E frame \in IF due THEN LoopFrames ELSE {buffers} :
             /\ buffers' = frame
             /\ AnalyzeFrame(frameDt, frame, smoothingAlpha(configSmoothness))
  /\ tickAnalyze' = tickAnalyze + 1
  /\ stmt' = stepAfter("analyze", TRUE)
  /\ UNCHANGED <<mvars, xvars, pvars, lastFrameTime, playing, hasSrc, configSmoothness,
                 timestamp, prevTimestamp, rawDt, frameDt, ticks, tickUpdate, updDt,
                 drawnPulse>>

\* variant: update takes the onset it starts a pulse from
onsetKickTaken(kick, lockout) == IF pulseTriggers(kick, lockout) THEN 0 ELSE kick

\* audio.onsetKick after update(audio, ...): update reads it and leaves it
onsetKickAfterUpdate(kick, lockout) == kick

\* what update reads of the analyzer
audioOf ==
  [onsetKick |-> onsetKick, onsetSnare |-> onsetSnare,
   onsetHihat |-> onsetHihat, energy |-> energy, rmsSmooth |-> rmsSmooth,
   low |-> smooth.SubBass + smooth.Bass, mid |-> smooth.LowMid + smooth.Mid,
   high |-> smooth.HighMid + smooth.High, bpm |-> getBPM]

\* the analyzer fields but onsetKick
avarsRest ==
  <<tMs, prevBandValues, fluxHist, fluxKickHist, fluxSnareHist,
    fluxHihatHist, lastOnsetT, lastKickT, lastSnareT, lastHihatT,
    onsetGlobal, onsetSnare, onsetHihat, spectralFlux, transientSharpness,
    beatInterval, lastBeatTime, beatGate, bpmSmooth, beatCount, barCount,
    gOn, kOn, sOn, hOn, isBeat, calls, evenBeats, quietKick, kickFirings>>

\* line 461: motion.update(audio, dt, music.phase, config.smoothness)
AnimateUpdate ==
  /\ stmt = "update"
  /\ UpdateFull(audioOf, frameDt, configSmoothness)
  /\ onsetKick' = onsetKickAfterUpdate(onsetKick, beatLockout)
  /\ updDt' = frameDt
  /\ tickUpdate' = tickUpdate + 1
  /\ stmt' = stepAfter("update", TRUE)
  /\ UNCHANGED <<avarsRest, fvars, pvars, lastFrameTime, lastFFTUpdate, playing,
                 hasSrc, configSmoothness, buffers, timestamp, prevTimestamp,
                 rawDt, frameDt, ticks, tickAnalyze, drawnPulse>>

\* the code that draws, from line 463 on
AnimateRender ==
  /\ stmt = "render"
  /\ drawnPulse' = pulse
  /\ stmt' = stepAfter("render", TRUE)
  /\ UNCHANGED <<avars, mvars, fvars, xvars, pvars, lastFrameTime, lastFFTUpdate, playing,
                 hasSrc, configSmoothness, buffers, timestamp, prevTimestamp, rawDt, frameDt,
                 ticks, tickAnalyze, tickUpdate, updDt>>

\* the fields of the analyzer that setFFTInfo leaves alone
fvarsRest ==
  <<fftSmooth, bandPeaks, onsetDecay, spectralCentroid, rms, rmsSmooth,
    rmsPeak, smooth, energy, rootNote, noteName, inFreq, inTime, inDt>>

\* audioCtx.sampleRate: the rate of the output device, fixed for the page
CtxRates == { 44100, 48000 }

\* the 'change' handler of the file input: setFFTInfo(analyser.fftSize,
\* audioCtx.sampleRate), then the file becomes the source of the element
FileChange ==
  /\ stmt = "idle"
  /\ ~hasSrc
  /\ hasSrc' = TRUE
  /\ \E rate \in CtxRates :
       /\ fftSize' = 8192
       /\ sampleRate' = rate
       /\ bandEdges' = computeLogBandEdges(bands, 20, Min(20000, rate \div 2))
  /\ UNCHANGED <<avars, mvars, fvarsRest, xvars, pvars, lastFrameTime, lastFFTUpdate, playing,
                 configSmoothness, buffers, stmt, timestamp, prevTimestamp, rawDt, frameDt,
                 ticks, tickAnalyze, tickUpdate, updDt, drawnPulse>>

\* the 'click' handler of the play button
PlayClick ==
  /\ stmt = "idle"
  /\ hasSrc
  /\ playing' = ~playing
  /\ UNCHANGED <<avars, mvars, fvars, xvars, pvars, lastFrameTime, lastFFTUpdate, hasSrc,
                 configSmoothness, buffers, stmt, timestamp, prevTimestamp, rawDt, frameDt,
                 ticks, tickAnalyze, tickUpdate, updDt, drawnPulse>>

\* the 'ended' handler of the audio element
Ended ==
  /\ stmt = "idle"
  /\ playing
  /\ playing' = FALSE
  /\ UNCHANGED <<avars, mvars, fvars, xvars, pvars, lastFrameTime, lastFFTUpdate, hasSrc,
                 configSmoothness, buffers, stmt, timestamp, prevTimestamp,
                 rawDt, frameDt, ticks, tickAnalyze, tickUpdate, updDt,
                 drawnPulse>>

\* config.smoothness is what config.js and the slider have set it to
InitLoop ==
  /\ InitAnalyzer /\ InitObserver /\ InitFeatures /\ InitMotion /\ InitPage
  /\ configSmoothness \in Smoothness

NextLoop ==
  \/ AnimateEnter
  \/ AnimateAnalyze
  \/ AnimateUpdate
  \/ AnimateRender
  \/ FileChange
  \/ PlayClick
  \/ Ended

SpecLoop == InitLoop /\ [][NextLoop]_vars

\* C18: update leaves every field of the analyzer it is given as it was.
C18_UpdateReadsOnly == [][updates' # updates => UNCHANGED <<avars, fvars>>]_vars

\* an update has started a pulse from an onset that is still there
C18_PulseFromOnset ==
  /\ stmt = "render"
  /\ tickUpdate = 1
  /\ triggered
  /\ onsetKick > 400

\* C19: a callback calls analyze and update once each or neither; analyze
\* comes first, update follows it at once with the same dt, and the code
\* that draws runs after both.
C19_AnalyzeThenUpdate ==
  /\ [] /\ tickAnalyze <= 1
        /\ tickUpdate <= tickAnalyze
        /\ stmt \in {"idle", "render"} => tickUpdate = tickAnalyze
  /\ [][ /\ calls' # calls => tickAnalyze = 0 /\ tickUpdate = 0
         /\ tickAnalyze = 1 /\ tickUpdate = 0 =>
              /\ updates' = updates + 1
              /\ calls' = calls
              /\ updDt' = inDt
         /\ drawnPulse' # drawnPulse => tickUpdate = tickAnalyze ]_vars

\* a callback has called both and has drawn the pulse update computed
C19_BothThenDrawn ==
  /\ stmt = "idle"
  /\ tickAnalyze = 1
  /\ tickUpdate = 1
  /\ updDt = inDt
  /\ pulse > 0
  /\ drawnPulse = pulse

\* C20: the dt of a callback, and so the dt analyze and update are handed,
\* is 0.016 s in the first callback and the time since the callback before,
\* capped at 0.05 s, in the others; it is never negative.
C20_DtCapped ==
  /\ [] /\ frameDt >= 0 /\ frameDt <= Ms(50)
        /\ inDt >= 0 /\ inDt <= Ms(50)
        /\ updDt >= 0 /\ updDt <= Ms(50)
        /\ ticks = 1 => frameDt = Ms(16)
        /\ ticks > 1 => frameDt = Min(timestamp - prevTimestamp, Ms(50))
  /\ [][ /\ calls' # calls => inDt' = frameDt
         /\ updates' # updates => updDt' = frameDt ]_vars

\* after a hitch of 200 ms analyze and update were handed 50 ms
C20_Hitch ==
  /\ timestamp - prevTimestamp = Ms(200)
  /\ ticks > 1
  /\ tickUpdate = 1
  /\ inDt = Ms(50)
  /\ updDt = Ms(50)

----------------------------------------------------------------------------
(* The coordinator over the whole range of its inputs *)

\* dt of 0, 1/60 s and the 50 ms cap
PulseDts == { 0, 50, Ms(50) }

\* no onset, and the strongest one
PulseKicks == { 0, 1500 }

\* the two ends of the smoothness range
PulseSmoothness == { 0, 100 }

UpdatePulse ==
  /\ updates < MaxPulseUpdates
  /\ \E kick \in PulseKicks, dt \in PulseDts, sm \in PulseSmoothness :
       Update(kick, dt, sm)
  /\ UNCHANGED <<avars, fvars, lvars, xvars, pvars>>

SpecPulse == Init /\ [][UpdatePulse]_vars

\* C21: pulse stays within [0, 1]: the coefficients of the two low-pass
\* stages are at most 1, the raw pulse is at most the decayed trigger value
\* 0.98, and neither stage rises above it.
C21_PulseRange ==
  /\ \A dt \in PulseDts, sm \in PulseSmoothness :
       /\ lerpFast(dt, sm) >= 0 /\ lerpFast(dt, sm) <= LerpDen
       /\ lerpMed(dt, sm) >= 0 /\ lerpMed(dt, sm) <= LerpDen
  /\ pulseRaw >= 0 /\ pulseRaw <= 980
  /\ pulseSmooth1 >= 0 /\ pulseSmooth1 <= 980
  /\ pulseSmooth2 >= 0 /\ pulseSmooth2 <= 980
  /\ pulse >= 0 /\ pulse <= 1000

\* the strongest onset at smoothness 1 has started a pulse and both stages
\* have risen
C21_FullPulse ==
  /\ triggered
  /\ trigSmooth = 100
  /\ pulseRaw = 980
  /\ pulseSmooth1 > 0
  /\ pulse > 0

----------------------------------------------------------------------------
(* The whole of update, on an analyzer that is quiet or at the top of its *)
(* documented ranges                                                      *)

QuietAudio ==
  [onsetKick |-> 0, onsetSnare |-> 0, onsetHihat |-> 0, energy |-> 0,
   rmsSmooth |-> 0, low |-> 0, mid |-> 0, high |-> 0, bpm |-> 0]

LoudAudio ==
  [onsetKick |-> 1500, onsetSnare |-> 1500, onsetHihat |-> 1500,
   energy |-> 1500, rmsSmooth |-> 1000, low |-> 2000, mid |-> 2000,
   high |-> 2000, bpm |-> 120]

UpdateCoordinator ==
  /\ updates < MaxFullUpdates
  /\ \E audio \in {QuietAudio, LoudAudio}, dt \in DtFrame,
        sm \in PulseSmoothness :
       UpdateFull(audio, dt, sm)
  /\ UNCHANGED <<avars, fvars, lvars, pvars>>

SpecCoordinator == Init /\ [][UpdateCoordinator]_vars

\* C22: impact stays within [0, 1].
C22_ImpactRange == impact >= 0 /\ impact <= 1000

----------------------------------------------------------------------------
(* The band layout *)

FFTSizes == { 512, 1024, 2048, 4096, 8192, 16384, 32768 }

\* sample rates of an AudioContext
SampleRates ==
  { 8000, 11025, 12000, 16000, 22050, 24000, 32000, 44100, 48000, 64000,
    88200, 96000, 176400, 192000, 384000 }

\* setFFTInfo(fftSize, sampleRate)
SetFFTInfo(size, rate) ==
  /\ fftSize' = size
  /\ sampleRate' = rate
  /\ bandEdges' = computeLogBandEdges(bands, 20, Min(20000, rate \div 2))
  /\ UNCHANGED <<avars, mvars, lvars, xvars, pvars, fftSmooth, bandPeaks, onsetDecay,
                 spectralCentroid, rms, rmsSmooth, rmsPeak, smooth, energy,
                 rootNote, noteName, inFreq, inTime, inDt>>

SetFFTInfoAny == \E size \in FFTSizes, rate \in SampleRates : SetFFTInfo(size, rate)

SpecEdges == Init /\ [][SetFFTInfoAny]_vars

----------------------------------------------------------------------------
(* Two coordinators on the same onsets, at smoothness 0 and 1 *)

\* the pulse part of update on a coordinator given as a record
pulseAfter(mc, kick, dt, sm) ==
  LET trig == pulseTriggers(kick, mc.lockout)
      raw  == pulseDecay(IF trig THEN pulseStart(kick) ELSE mc.raw, sm)
      s1   == lerp(mc.s1, raw, lerpFast(dt, sm), LerpDen)
  IN [raw |-> raw, s1 |-> s1,
      s2 |-> lerp(mc.s2, s1, lerpMed(dt, sm), LerpDen),
      lockout |-> lockoutAfter(IF trig THEN beatLockoutTime(sm) ELSE mc.lockout, dt)]

\* one call of update on each, with the same onsetKick and dt = 0.05; the
\* kick is up in some of the first calls and down from then on
UpdatePair ==
  /\ updates < MaxPairUpdates
  /\ \E kick \in IF updates < PairBurst THEN PulseKicks ELSE {0} :
       /\ Update(kick, Ms(50), 0)
       /\ \E mc \in {pulseAfter(second, kick, Ms(50), 100)} :
            /\ second' = mc
            /\ secondSum' = secondSum + mc.s2
            /\ secondSquares' = secondSquares + mc.s2 * mc.s2
  /\ UNCHANGED secondSwell
  /\ pulseSum' = pulseSum + pulse'
  /\ pulseSquares' = pulseSquares + pulse' * pulse'
  /\ UNCHANGED <<avars, fvars, lvars, xvars>>

SpecPair == Init /\ [][UpdatePair]_vars

\* C24: over a sequence of calls with a pulse in it, the pulse of the
\* coordinator at smoothness 1 has a smaller variance than the pulse of the
\* one at smoothness 0 (n^2 times the variance is n * sum of squares - square
\* of the sum).
C24_SmootherVariesLess ==
  (updates = MaxPairUpdates /\ triggers > 0) =>
    updates * secondSquares - secondSum * secondSum
      < updates * pulseSquares - pulseSum * pulseSum

----------------------------------------------------------------------------
(* Two coordinators on the same energy and tempo, but on different onsets *)

\* a loud analyzer at 120 BPM whose three onsets are all at level
SteadyAudio(level) ==
  [onsetKick |-> level, onsetSnare |-> level, onsetHihat |-> level,
   energy |-> 1500, rmsSmooth |-> 1000, low |-> 2000, mid |-> 2000,
   high |-> 2000, bpm |-> 120]

\* one call of update on each, with dt = 0.05 and smoothness 0: the second
\* coordinator is given no onset where the first is given one, and one
\* where the first is given none
UpdateTwin ==
  /\ updates < MaxTwinUpdates
  /\ \E level \in PulseKicks :
       /\ UpdateFull(SteadyAudio(level), Ms(50), 0)
       /\ secondSwell' = swellAfter(secondSwell, SteadyAudio(1500 - level), Ms(50), 0)
  /\ UNCHANGED <<avars, fvars, lvars, second, pulseSum, pulseSquares,
                 secondSum, secondSquares>>

SpecTwin == Init /\ [][UpdateTwin]_vars

\* C25: swell, breathe and the breathe phase of two coordinators given the
\* same dt, smoothness, energy, rmsSmooth and BPM are the same whatever the
\* onsets each is given, and every update advances the phase by
\* dt * (BPM / 60) * 0.25.
C25_NoTransients ==
  /\ [] /\ secondSwell.s2 = swell
        /\ secondSwell.breathe = breathe
        /\ secondSwell.phase = breathePhase
  /\ [][updates' # updates =>
          breathePhase' = breathePhase + phaseStep(Ms(50), 120)]_vars

\* the first coordinator has started two pulses, the phase is past a
\* quarter of a cycle and breathe has risen with the swell
C25_Breathing ==
  /\ triggers = 2
  /\ impact > 0
  /\ swell > 0
  /\ breathe > 0
  /\ breathePhase > 250000
  /\ secondSwell.breathe = breathe

----------------------------------------------------------------------------
(* Beats and the kick envelope *)

\* C26: a call reports a beat only if the kick channel fired in that call
\* (its strength is at least 0.5 and _lastKickT is the time of the call); a
\* call in which it did not fire reports no beat, whatever onsetKick is.
C26_BeatNeedsKick ==
  /\ [] (isBeat => kOn >= 500 /\ lastKickT = tMs /\ lastBeatTime = tMs)
  /\ [][ calls' # calls /\ kOn' = 0 =>
           ~isBeat' /\ beatCount' = beatCount /\ lastBeatTime' = lastBeatTime ]_vars

\* the kick did not fire in this call, its envelope is still above 0.3, the
\* last beat is more than 180 ms back and the gate is open: no beat
C26_TailNoBeat ==
  /\ kOn = 0
  /\ onsetKick > 300
  /\ beatCount >= 1
  /\ tMs - lastBeatTime > Ms(180)
  /\ beatGate = 0
  /\ ~isBeat

----------------------------------------------------------------------------
(* The click track at the delta times the animation loop passes *)

\* 0, 20 ms and the 50 ms cap
DtCapped == { 0, Ms(20), Ms(50) }

ClickCapped == Click(DtCapped, MaxCappedCalls)

SpecCapped == Init /\ [][ClickCapped]_vars

\* C27: in a call that comes more than 180 ms of analyzer time after the
\* last beat the gate is 0 when the beat condition is evaluated, so a kick
\* of that call is reported as a beat.
C27_GateOpen ==
  [][ calls' # calls /\ tMs' - lastBeatTime > Ms(180) =>
        /\ beatGate = 0
        /\ kOn' > 300 => isBeat' ]_vars

\* a second beat, in the first call more than 180 ms after the first one
C27_SecondBeatInTime ==
  /\ isBeat
  /\ beatCount = 2
  /\ beatGate > 0
  /\ tMs - lastKickT = 0

----------------------------------------------------------------------------
(* The click track analyzed and handed to the coordinator, as animate does *)

\* analyze, then update on the analyzer as analyze left it, with the same dt
Tick ==
  /\ calls < MaxTickCalls
  /\ \E dt \in DtFrame, sm \in PulseSmoothness :
       /\ \E f \in IF prevBandValues = KickFrame THEN {Silence}
                   ELSE {Silence, KickFrame} :
            Analyze(dt, f)
       /\ Update(onsetKick', dt, sm)
  /\ UNCHANGED <<fvars, lvars, xvars, pvars>>

SpecTick == Init /\ [][Tick]_vars

\* C28: a kick onset starts at most one pulse: the pulses started are never
\* more than the calls in which the kick channel fired.
C28_OnePulsePerKick == triggers <= kickFirings

----------------------------------------------------------------------------
(* The adaptive threshold and the current flux *)

\* C29: in every call each channel's threshold is taken over a history whose
\* last entry is the call's own flux and is strictly positive; a channel does
\* not fire in a call where its flux is 0, and no channel fires in the first
\* call of a fresh analyzer.
C29_ThresholdAboveSilence ==
  [][ calls' # calls =>
        /\ calls = 0 => gOn' = 0 /\ kOn' = 0 /\ sOn' = 0 /\ hOn' = 0
        /\ fluxHist'[Len(fluxHist')]
             = Flux(prevBandValues', prevBandValues, "all")
        /\ fluxKickHist'[Len(fluxKickHist')]
             = Flux(prevBandValues', prevBandValues, "kick")
        /\ fluxSnareHist'[Len(fluxSnareHist')]
             = Flux(prevBandValues', prevBandValues, "snare")
        /\ fluxHihatHist'[Len(fluxHihatHist')]
             = Flux(prevBandValues', prevBandValues, "hihat")
        /\ adaptiveThreshold(fluxHist', 22) > 0
        /\ adaptiveThreshold(fluxKickHist', 20) > 0
        /\ adaptiveThreshold(fluxSnareHist', 22) > 0
        /\ adaptiveThreshold(fluxHihatHist', 25) > 0
        /\ fluxHist'[Len(fluxHist')] = 0 => gOn' = 0
        /\ fluxKickHist'[Len(fluxKickHist')] = 0 => kOn' = 0
        /\ fluxSnareHist'[Len(fluxSnareHist')] = 0 => sOn' = 0
        /\ fluxHihatHist'[Len(fluxHihatHist')] = 0 => hOn' = 0 ]_vars

\* a loud first call and an unchanged second one, the global cooldown over
\* in both, and the global channel has not fired
C29_LoudThenSteady ==
  /\ calls = 2
  /\ fluxHist[1] > 0
  /\ fluxHist[2] = 0
  /\ gOn = 0
  /\ lastOnsetT = 0

----------------------------------------------------------------------------
(* Animation ticks while the audio does not play *)

\* C30: while playing is false no step changes a field that analyze or update
\* writes, and an animation tick goes from its frame time straight to the
\* drawing code, calling neither analyze nor update and leaving the whole
\* analyzer and coordinator as they were.
C30_PausedFrozen ==
  [][ ~playing =>
        /\ UNCHANGED <<avars, mvars, xvars, fvarsRest>>
        /\ stmt' # stmt =>
             /\ stmt' \in {"render", "idle"}
             /\ tickAnalyze' = 0
             /\ tickUpdate' = 0
             /\ UNCHANGED fvars ]_vars

\* a tick has drawn while the audio was paused, after a tick that analyzed
\* a kick and started a pulse: the onset and the pulse are still up
C30_PausedWithPulseUp ==
  /\ ~playing
  /\ stmt = "idle"
  /\ ticks > 1
  /\ tickAnalyze = 0
  /\ tickUpdate = 0
  /\ calls > 0
  /\ onsetKick > 0
  /\ pulseRaw > 0

============================================================================
